---------------------------- MODULE Spec2Model ----------------------------
(***************************************************************************)
(* Model of the node-pool scheduler configuration code (src/cfg.py):       *)
(* the cron field parser (CronJobFieldSpec, check_cronjob_field_value,     *)
(* CronJobSpec) and the configuration loader (Config).                     *)
(*                                                                         *)
(* Strings are sequences of one-character strings, so that str.split and   *)
(* int() are computed as Python computes them.                             *)
(***************************************************************************)
EXTENDS Integers, Sequences, FiniteSets, TLC

VARIABLES
  fkind,     \* field parser: which of the five cron fields is parsed
  ftext,     \* field parser: the field text handed to CronJobFieldSpec
  fpc,       \* field parser: "ready" | "done"
  fresult,   \* field parser: outcome of CronJobFieldSpec(ftext, lowest, highest)
  pc,        \* loader: the place Config.__init__ has reached
  self,      \* loader: the attributes of the Config under construction
  acc,       \* loader: the dict or list the running check_config_option_* builds
  cur,       \* loader: the document value the last step examined, and its outcome
  exitcode,  \* loader: 0 while the process runs, else the code of sys.exit
  held,      \* loader: the Config the caller of Config.read_config() holds
  heap,      \* loader: the Config objects read_config has returned, by identity
  addr,      \* loader: the identity of the Config under construction (0: none)
  snaps,     \* loader: per returned Config, its identity and what the caller saw
  wpc,       \* window scan: "idle" | "scan" | "done"
  wentry,    \* window scan: the ScheduleRuleEntry whose activity is asked
  wT,        \* window scan: the instant T
  wM,        \* window scan: the minute under examination
  wleft,     \* window scan: minutes of the horizon not yet examined
  wactive,   \* window scan: the answer, once wpc = "done"
  dpc,       \* resolver: "idle" | "exceptions" | "rules" | "schedule" | "scanning" | "decided"
  dsnap,     \* resolver: the Config resolved against
  dtarget,   \* resolver: the target identity
  dT,        \* resolver: the instant
  dk,        \* resolver: index of the exception, rule or window entry looked at
  dsched,    \* resolver: the entries of the schedule under evaluation
  dconsulted,\* resolver: whether the rule list has been consulted
  decision,  \* resolver: the Decision, once dpc = "decided"
  hpc,       \* handler: the line of handler() about to run
  body,      \* handler: the request body, as data.getvalue() returns it
  nodepool_id, \* handler: the local of that name
  hsize,     \* handler: the local named size
  current,   \* handler: the local of that name
  live,      \* handler: the size of the node pool in the cloud
  calls,     \* handler: the cloud API calls made so far
  hexc       \* handler: the exception that left the handler, or "none"

fieldvars == <<fkind, ftext, fpc, fresult>>
heapvars == <<heap, addr, snaps>>
loadvars == <<pc, self, acc, cur, exitcode, held, heapvars>>
scanvars == <<wpc, wentry, wT, wM, wleft, wactive>>
decvars == <<dpc, dsnap, dtarget, dT, dk, dsched, dconsulted, decision>>
reqvars == <<hpc, body, nodepool_id, hsize, current, live, calls, hexc>>
notload == <<fieldvars, scanvars, decvars, reqvars>>
vars == <<fieldvars, loadvars, scanvars, decvars, reqvars>>

(***************************************************************************)
(* Bounds of the model.                                                    *)
(***************************************************************************)
\* longest field text handed to the field parser
MaxLen == 4
\* most entries in one schedule, in the rules list and in the exceptions list
MaxEntries == 1

(***************************************************************************)
(* Python strings.                                                         *)
(***************************************************************************)
\* int() of one decimal digit
DigitVal ==
  [c \in {"0", "1", "2", "3", "4", "5", "6", "7", "8", "9"} |->
     CASE c = "0" -> 0 [] c = "1" -> 1 [] c = "2" -> 2 [] c = "3" -> 3
       [] c = "4" -> 4 [] c = "5" -> 5 [] c = "6" -> 6 [] c = "7" -> 7
       [] c = "8" -> 8 [] c = "9" -> 9]

IsDigits(s) == Len(s) > 0 /\ \A i \in 1..Len(s) : s[i] \in DOMAIN DigitVal

RECURSIVE DigitsVal(_)
DigitsVal(s) ==
  IF Len(s) = 0 THEN 0
  ELSE 10 * DigitsVal(SubSeq(s, 1, Len(s) - 1)) + DigitVal[s[Len(s)]]

\* Python int(str): an optional sign followed by decimal digits; anything
\* else raises ValueError (ok = FALSE).  Whitespace and '_' are outside the
\* alphabets used here.
PyInt(s) ==
  IF IsDigits(s) THEN [ok |-> TRUE, v |-> DigitsVal(s)]
  ELSE IF Len(s) > 1 /\ s[1] \in {"+", "-"} /\ IsDigits(Tail(s))
    THEN [ok |-> TRUE, v |-> IF s[1] = "-" THEN 0 - DigitsVal(Tail(s))
                                          ELSE DigitsVal(Tail(s))]
  ELSE [ok |-> FALSE, v |-> 0]

\* Python str.split(sep) for a one-character separator: the pieces between
\* separators, empty pieces kept; "".split(sep) is [""].
RECURSIVE SplitAcc(_, _, _, _, _)
SplitAcc(s, sep, i, piece, pieces) ==
  IF i > Len(s) THEN Append(pieces, piece)
  ELSE IF s[i] = sep THEN SplitAcc(s, sep, i + 1, <<>>, Append(pieces, piece))
  ELSE SplitAcc(s, sep, i + 1, Append(piece, s[i]), pieces)

Split(s, sep) == SplitAcc(s, sep, 1, <<>>, <<>>)

(***************************************************************************)
(* Python values the field parser juggles: an int, or the 2-tuple that     *)
(* check_cronjob_field_value returns.                                      *)
(***************************************************************************)
PyIntVal(n) == [tag |-> "int", a |-> n, b |-> n]
PyTuple(x, y) == [tag |-> "tuple", a |-> x, b |-> y]

Returned(v) == [exc |-> "none", val |-> v]
Raised(kind) == [exc |-> kind, val |-> PyIntVal(0)]

\* variant for sensitivity: the upper bound is not enforced
check_cronjob_field_value_NoHigh(value, lowest, highest) ==
  IF value = <<"*">> THEN Returned(PyTuple(lowest, highest))
  ELSE LET n == PyInt(value) IN
    IF ~n.ok THEN Raised("ValueError")
    ELSE IF lowest >= 0 /\ n.v < lowest THEN Raised("ValueError")
    ELSE Returned(PyTuple(n.v, n.v))

\* variant for sensitivity: the lower bound is not enforced
check_cronjob_field_value_NoLow(value, lowest, highest) ==
  IF value = <<"*">> THEN Returned(PyTuple(lowest, highest))
  ELSE LET n == PyInt(value) IN
    IF ~n.ok THEN Raised("ValueError")
    ELSE IF highest >= 0 /\ n.v > highest THEN Raised("ValueError")
    ELSE Returned(PyTuple(n.v, n.v))

\* check_cronjob_field_value: '*' is (lowest, highest); an integer within
\* the bounds is (value, value); every failure is re-raised as ValueError.
check_cronjob_field_value(value, lowest, highest) ==
  IF value = <<"*">> THEN Returned(PyTuple(lowest, highest))
  ELSE LET n == PyInt(value) IN
    IF ~n.ok THEN Raised("ValueError")
    ELSE IF lowest >= 0 /\ n.v < lowest THEN Raised("ValueError")
    ELSE IF highest >= 0 /\ n.v > highest THEN Raised("ValueError")
    ELSE Returned(PyTuple(n.v, n.v))

\* Python's ordering of tuples: lexicographic
TupleGreater(x, y) == x.a > y.a \/ (x.a = y.a /\ x.b > y.b)

\* variant for sensitivity: range(low, high, every), the upper end excluded
RangeValues_Exclusive(low, high, every) ==
  IF high.tag # "int" \/ low.tag # "int" \/ every.tag # "int"
    THEN [exc |-> "TypeError", values |-> {}]
  ELSE [exc |-> "none",
        values |-> {v \in low.a..(high.a - 1) : (v - low.a) % every.a = 0}]

\* for value in range(low, high+1, every): values.add(value)
\* high+1 of a tuple, and a tuple handed to range(), are TypeErrors.
RangeValues(low, high, every) ==
  IF high.tag # "int" \/ low.tag # "int" \/ every.tag # "int"
    THEN [exc |-> "TypeError", values |-> {}]
  ELSE [exc |-> "none",
        values |-> {v \in low.a..high.a : (v - low.a) % every.a = 0}]

\* raise ValueError('... %d-%d ...' % (low, high)): formatting a tuple with
\* %d is itself a TypeError, raised in place of the ValueError.
RaiseInvalidRange(low, high) ==
  IF low.tag = "int" /\ high.tag = "int"
    THEN [exc |-> "ValueError", values |-> {}]
  ELSE [exc |-> "TypeError", values |-> {}]

Fail(kind) == [exc |-> kind, values |-> {}]

\* the range part of one entry, given the step already computed
EntryRange(rangeval, every, lowest, highest) ==
  LET boundaries == Split(rangeval, "-") IN
  IF Len(boundaries) = 1 THEN
    LET r == check_cronjob_field_value(boundaries[1], lowest, highest) IN
    IF r.exc # "none" THEN Fail(r.exc)
    ELSE RangeValues(PyIntVal(r.val.a), PyIntVal(r.val.b), every)
  ELSE IF Len(boundaries) = 2 THEN
    LET low == check_cronjob_field_value(boundaries[1], lowest, highest) IN
    IF low.exc # "none" THEN Fail(low.exc)
    ELSE LET high == check_cronjob_field_value(boundaries[2], lowest, highest) IN
      IF high.exc # "none" THEN Fail(high.exc)
      ELSE IF TupleGreater(low.val, high.val)
        THEN RaiseInvalidRange(low.val, high.val)
      ELSE RangeValues(low.val, high.val, every)
  ELSE Fail("ValueError")

\* one pass of the loop body of CronJobFieldSpec.__init__
EntryValues(entry, lowest, highest) ==
  LET splits == Split(entry, "/") IN
  IF Len(splits) = 1 THEN EntryRange(splits[1], PyIntVal(1), lowest, highest)
  ELSE IF Len(splits) = 2 THEN
    LET every == check_cronjob_field_value(splits[2], 1, highest) IN
    IF every.exc # "none" THEN Fail(every.exc)
    ELSE EntryRange(splits[1], every.val, lowest, highest)
  ELSE Fail("ValueError")

\* the loop over spec.split(','): the first entry that raises ends it
RECURSIVE FieldLoop(_, _, _, _, _)
FieldLoop(entries, i, values, lowest, highest) ==
  IF i > Len(entries) THEN [exc |-> "none", values |-> values]
  ELSE LET e == EntryValues(entries[i], lowest, highest) IN
    IF e.exc # "none" THEN Fail(e.exc)
    ELSE FieldLoop(entries, i + 1, values \cup e.values, lowest, highest)

CronJobFieldSpec(spec, lowest, highest) ==
  FieldLoop(Split(spec, ","), 1, {}, lowest, highest)

\* the bounds CronJobSpec.__init__ gives each of its five fields
FieldKinds == {"minute", "hour", "day", "month", "dow"}
Lowest(kind) == IF kind \in {"day", "month"} THEN 1 ELSE 0
Highest(kind) ==
  CASE kind = "minute" -> 59 [] kind = "hour" -> 59 [] kind = "day" -> 31
    [] kind = "month" -> 12 [] kind = "dow" -> 6

\* CronJobSpec.__init__: exactly five space-separated fields, parsed in
\* order with their bounds; the first field that raises ends the parse.
NoCron == [exc |-> "none", minute |-> {}, hour |-> {}, day |-> {}, month |-> {}, dow |-> {}]
CronFail(kind) == [NoCron EXCEPT !.exc = kind]

\* the order in which CronJobSpec.__init__ parses its fields
CronFieldOrder == <<"minute", "hour", "day", "month", "dow">>

\* the index of the first result that raised, 0 when none did
FirstRaised(results) ==
  IF \A i \in 1..Len(results) : results[i].exc = "none" THEN 0
  ELSE CHOOSE i \in 1..Len(results) :
         /\ results[i].exc # "none"
         /\ \A j \in 1..(i - 1) : results[j].exc = "none"

\* the CronJobSpec of five parsed fields, or the first exception among them
CronJobSpecOf(fields) ==
  IF FirstRaised(fields) # 0 THEN CronFail(fields[FirstRaised(fields)].exc)
  ELSE [exc |-> "none", minute |-> fields[1].values, hour |-> fields[2].values,
        day |-> fields[3].values, month |-> fields[4].values, dow |-> fields[5].values]

CronJobSpec(spec) ==
  IF Len(Split(spec, " ")) # 5 THEN CronFail("ValueError")
  ELSE CronJobSpecOf(
         [i \in 1..5 |->
            CronJobFieldSpec(Split(spec, " ")[i], Lowest(CronFieldOrder[i]),
                             Highest(CronFieldOrder[i]))])

(***************************************************************************)
(* Values of the loaded YAML document (self.config = yaml.safe_load(..)).  *)
(* t is the Python type of the value: "absent" (the key is not there),     *)
(* "null" (None), "bool", "int", "str", "list", "dict"; n is the number of *)
(* an int or bool (True = 1), s the text of a str.  yaml.safe_load         *)
(* resolves the plain scalars on/yes/true to the bool True.                *)
(***************************************************************************)
YAbsent == [t |-> "absent", n |-> 0, s |-> <<>>]
YNull == [t |-> "null", n |-> 0, s |-> <<>>]
YOn == [t |-> "bool", n |-> 1, s |-> <<>>]
YInt(n) == [t |-> "int", n |-> n, s |-> <<>>]
YStr(s) == [t |-> "str", n |-> 0, s |-> s]
YList == [t |-> "list", n |-> 0, s |-> <<>>]
YDict == [t |-> "dict", n |-> 0, s |-> <<>>]

IsNone(value) == value.t \in {"absent", "null"}

\* str(n) of a non-negative int
DigitChar == [d \in 0..9 |->
  CASE d = 0 -> "0" [] d = 1 -> "1" [] d = 2 -> "2" [] d = 3 -> "3" [] d = 4 -> "4"
    [] d = 5 -> "5" [] d = 6 -> "6" [] d = 7 -> "7" [] d = 8 -> "8" [] d = 9 -> "9"]

RECURSIVE NatStr(_)
NatStr(n) == IF n < 10 THEN <<DigitChar[n]>> ELSE Append(NatStr(n \div 10), DigitChar[n % 10])

\* str(value) of a scalar that is neither None, a list nor a dict
PyStr(value) ==
  CASE value.t = "str" -> value.s
    [] value.t = "int" -> IF value.n < 0 THEN <<"-">> \o NatStr(0 - value.n) ELSE NatStr(value.n)
    [] value.t = "bool" -> IF value.n = 1 THEN <<"T", "r", "u", "e">>
                                          ELSE <<"F", "a", "l", "s", "e">>

\* os.getenv(NAME): unset, or the variable's text
EnvUnset == [set |-> FALSE, s |-> <<>>]
EnvSet(s) == [set |-> TRUE, s |-> s]

\* check_config_global_option: the environment variable wins (an empty one
\* unless skipEmpty), then the document's key, then the default.
check_config_global_option(env, docvalue, default, skipEmpty) ==
  IF env.set /\ (env.s # <<>> \/ ~skipEmpty) THEN YStr(env.s)
  ELSE IF docvalue.t # "absent" THEN docvalue
  ELSE default

\* results of the option checkers: exc, and the value (none = Python None)
IntResult(n) == [exc |-> "none", none |-> FALSE, v |-> n]
IntNone == [exc |-> "none", none |-> TRUE, v |-> 0]
IntFail == [exc |-> "ConfigError", none |-> TRUE, v |-> 0]

\* check_config_option_integer for a key of a mapping (base is not None;
\* default is None at every call): value = base[key] if key in base else None.
check_config_option_integer(value, min, max, emptyDefault) ==
  IF IsNone(value) THEN (IF min > 0 THEN IntFail ELSE IntNone)
  ELSE IF value.t \in {"int", "bool"} THEN IntResult(value.n)
  ELSE IF value.t \in {"list", "dict"} THEN IntFail
  ELSE IF value.s = <<>> /\ emptyDefault THEN IntNone
  ELSE LET n == PyInt(value.s) IN
    IF ~n.ok THEN IntFail
    ELSE IF min >= 0 /\ n.v < min THEN IntFail
    ELSE IF max >= 0 /\ n.v > max THEN IntFail
    ELSE IntResult(n.v)

StrResult(s) == [exc |-> "none", none |-> FALSE, s |-> s]
StrNone == [exc |-> "none", none |-> TRUE, s |-> <<>>]
StrFail == [exc |-> "ConfigError", none |-> TRUE, s |-> <<>>]

\* check_config_option_string, on the value already looked up (in the
\* mapping, or by check_config_global_option); default is None and
\* emptyDefault False at every call.
check_config_option_string(value, minLen, maxLen) ==
  IF IsNone(value) THEN (IF minLen > 0 THEN StrFail ELSE StrNone)
  ELSE IF value.t \in {"list", "dict"} THEN StrFail
  ELSE LET str == PyStr(value) IN
    IF minLen >= 0 /\ Len(str) < minLen THEN StrFail
    ELSE IF maxLen >= 0 /\ Len(str) > maxLen THEN StrFail
    ELSE StrResult(str)

\* datetime.fromisoformat on the form "YYYY-MM-DD HH:MM" (the form of the
\* example configuration): the naive datetime, or ValueError.
NoDate == [exc |-> "none", none |-> TRUE, year |-> 0, month |-> 0, day |-> 0,
           hour |-> 0, minute |-> 0, second |-> 0, tz |-> <<>>]
DateFail(kind) == [NoDate EXCEPT !.exc = kind]

DaysInMonth(year, month) ==
  IF month = 2
    THEN (IF year % 4 = 0 /\ (year % 100 # 0 \/ year % 400 = 0) THEN 29 ELSE 28)
  ELSE IF month \in {4, 6, 9, 11} THEN 30 ELSE 31

fromisoformat(s) ==
  IF /\ Len(s) = 16
     /\ s[5] = "-" /\ s[8] = "-" /\ s[11] \in {" ", "T"} /\ s[14] = ":"
     /\ IsDigits(SubSeq(s, 1, 4)) /\ IsDigits(SubSeq(s, 6, 7))
     /\ IsDigits(SubSeq(s, 9, 10)) /\ IsDigits(SubSeq(s, 12, 13))
     /\ IsDigits(SubSeq(s, 15, 16))
     /\ DigitsVal(SubSeq(s, 1, 4)) >= 1
     /\ DigitsVal(SubSeq(s, 6, 7)) \in 1..12
     /\ DigitsVal(SubSeq(s, 9, 10))
          \in 1..DaysInMonth(DigitsVal(SubSeq(s, 1, 4)), DigitsVal(SubSeq(s, 6, 7)))
     /\ DigitsVal(SubSeq(s, 12, 13)) \in 0..23
     /\ DigitsVal(SubSeq(s, 15, 16)) \in 0..59
  THEN [exc |-> "none", none |-> FALSE,
        year |-> DigitsVal(SubSeq(s, 1, 4)), month |-> DigitsVal(SubSeq(s, 6, 7)),
        day |-> DigitsVal(SubSeq(s, 9, 10)), hour |-> DigitsVal(SubSeq(s, 12, 13)),
        minute |-> DigitsVal(SubSeq(s, 15, 16)), second |-> 0, tz |-> <<>>]
  ELSE DateFail("ValueError")

\* check_config_option_datetime: None for a missing or empty value
DateOf(datetimeval) ==
  IF datetimeval.exc # "none" THEN DateFail(datetimeval.exc)
  ELSE IF datetimeval.none \/ datetimeval.s = <<>> THEN NoDate
  ELSE fromisoformat(datetimeval.s)

check_config_option_datetime(value) == DateOf(check_config_option_string(value, 0, -1))

\* check_config_option_cronjob: a mandatory string, parsed by CronJobSpec
CronOf(str) == IF str.exc # "none" THEN CronFail(str.exc) ELSE CronJobSpec(str.s)

check_config_option_cronjob(value) == CronOf(check_config_option_string(value, 1, -1))

\* the time zones ZoneInfo finds
KnownZones == {<<"U", "T", "C">>, <<"C", "E", "T">>}

\* check_config_option_timezone: a mandatory string that names a time zone;
\* ZoneInfoNotFoundError becomes ConfigError.
ZoneInfo(timezonename) ==
  IF timezonename.exc # "none" THEN StrFail
  ELSE IF timezonename.s \in KnownZones THEN timezonename
  ELSE StrFail

check_config_option_timezone(env, docvalue) ==
  ZoneInfo(check_config_option_string(
             check_config_global_option(env, docvalue, YNull, FALSE), 1, -1))

(***************************************************************************)
(* The entry checkers of Config.  A raw entry is the YAML value at that    *)
(* place: t is its type, the other fields the values of its keys.          *)
(***************************************************************************)
NoSize == [none |-> TRUE, v |-> 0]
NoScheduleRuleEntry == [size |-> NoSize, start |-> NoCron, end |-> NoCron]

\* the ScheduleRuleEntry of the three checked options, or the first
\* exception among them
ScheduleRuleEntryOf(size, startcron, endcron) ==
  IF size.exc # "none" THEN [exc |-> size.exc, entry |-> NoScheduleRuleEntry]
  ELSE IF startcron.exc # "none" THEN [exc |-> startcron.exc, entry |-> NoScheduleRuleEntry]
  ELSE IF endcron.exc # "none" THEN [exc |-> endcron.exc, entry |-> NoScheduleRuleEntry]
  ELSE [exc |-> "none",
        entry |-> [size |-> [none |-> size.none, v |-> size.v],
                   start |-> startcron, end |-> endcron]]

\* check_config_schedule_rule_entry: size, start, end, in that order
check_config_schedule_rule_entry(value) ==
  IF value.t # "dict" THEN [exc |-> "ConfigError", entry |-> NoScheduleRuleEntry]
  ELSE ScheduleRuleEntryOf(check_config_option_integer(value.size, 0, -1, FALSE),
                           check_config_option_cronjob(value.start),
                           check_config_option_cronjob(value.end))

\* the list of checked entries, or the first exception among them
EntriesOf(results) ==
  IF FirstRaised(results) # 0
    THEN [exc |-> results[FirstRaised(results)].exc, entries |-> <<>>]
  ELSE [exc |-> "none", entries |-> [i \in 1..Len(results) |-> results[i].entry]]

\* the loop of check_config_schedule_entry over the entries of one schedule
ScheduleEntryLoop(list) ==
  EntriesOf([i \in 1..Len(list) |-> check_config_schedule_rule_entry(list[i])])

\* check_config_schedule_entry: a mapping is refused, None is an empty
\* schedule, anything else must be a list of schedule rule entries.
check_config_schedule_entry(value) ==
  IF value.t = "dict" THEN [exc |-> "ConfigError", entries |-> <<>>]
  ELSE IF value.t = "null" THEN [exc |-> "none", entries |-> <<>>]
  ELSE IF value.t # "list" THEN [exc |-> "ConfigError", entries |-> <<>>]
  ELSE ScheduleEntryLoop(value.l)

OptStr(r) == [none |-> r.none, s |-> r.s]
NoOptStr == [none |-> TRUE, s |-> <<>>]
NoRuleEntry == [schedule |-> <<>>, compartment |-> NoOptStr, cluster |-> NoOptStr,
                nodepool |-> NoOptStr]

RuleEntryOf(schedule, compartment, cluster, nodepool) ==
  IF \E r \in {schedule, compartment, cluster, nodepool} : r.exc # "none"
    THEN [exc |-> "ConfigError", entry |-> NoRuleEntry]
  ELSE [exc |-> "none",
        entry |-> [schedule |-> schedule.s, compartment |-> OptStr(compartment),
                   cluster |-> OptStr(cluster), nodepool |-> OptStr(nodepool)]]

\* check_config_rule_entry: a mandatory schedule name and three optional
\* filter strings
check_config_rule_entry(value) ==
  IF value.t # "dict" THEN [exc |-> "ConfigError", entry |-> NoRuleEntry]
  ELSE RuleEntryOf(check_config_option_string(value.schedule, 1, -1),
                   check_config_option_string(value.compartment, 0, -1),
                   check_config_option_string(value.cluster, 0, -1),
                   check_config_option_string(value.nodepool, 0, -1))

Date(d) == [none |-> d.none, year |-> d.year, month |-> d.month, day |-> d.day,
            hour |-> d.hour, minute |-> d.minute, second |-> d.second, tz |-> d.tz]
NoExceptionEntry ==
  [start |-> Date(NoDate), end |-> Date(NoDate), compartment |-> NoOptStr,
   cluster |-> NoOptStr, nodepool |-> NoOptStr, size |-> NoSize, comment |-> NoOptStr]

ExceptionEntryOf(start, end, compartment, cluster, nodepool, size, comment) ==
  IF start.exc # "none" THEN [exc |-> start.exc, entry |-> NoExceptionEntry]
  ELSE IF end.exc # "none" THEN [exc |-> end.exc, entry |-> NoExceptionEntry]
  ELSE IF \E r \in {compartment, cluster, nodepool} : r.exc # "none"
    THEN [exc |-> "ConfigError", entry |-> NoExceptionEntry]
  ELSE IF size.exc # "none" THEN [exc |-> size.exc, entry |-> NoExceptionEntry]
  ELSE IF comment.exc # "none" THEN [exc |-> comment.exc, entry |-> NoExceptionEntry]
  ELSE [exc |-> "none",
        entry |-> [start |-> Date(start), end |-> Date(end),
                   compartment |-> OptStr(compartment), cluster |-> OptStr(cluster),
                   nodepool |-> OptStr(nodepool),
                   size |-> [none |-> size.none, v |-> size.v],
                   comment |-> OptStr(comment)]]

\* check_config_exception_entry: start, end, the three filter strings,
\* size (min=0, emptyDefault) and comment, in that order
check_config_exception_entry(value) ==
  IF value.t # "dict" THEN [exc |-> "ConfigError", entry |-> NoExceptionEntry]
  ELSE ExceptionEntryOf(check_config_option_datetime(value.start),
                        check_config_option_datetime(value.end),
                        check_config_option_string(value.compartment, 0, -1),
                        check_config_option_string(value.cluster, 0, -1),
                        check_config_option_string(value.nodepool, 0, -1),
                        check_config_option_integer(value.size, 0, -1, TRUE),
                        check_config_option_string(value.comment, 0, -1))

\* ExceptionEntry.process_entry: start and end, where present, are rebuilt
\* with tzinfo=timezone
process_entry(entry, timezone) ==
  [entry EXCEPT !.start = IF entry.start.none THEN @ ELSE [@ EXCEPT !.tz = timezone],
                !.end = IF entry.end.none THEN @ ELSE [@ EXCEPT !.tz = timezone]]

\* Exceptions.process_entries
process_entries(entries, timezone) ==
  [i \in 1..Len(entries) |-> process_entry(entries[i], timezone)]

NoResult == [exc |-> "unset", values |-> {}]

NoInstant == [year |-> 0, month |-> 0, day |-> 0, hour |-> 0, minute |-> 0, dow |-> 0]
NoSnapshot == [timezone |-> <<>>, schedules |-> <<>>, rules |-> <<>>, exceptions |-> <<>>]
NoTarget == [compartment |-> <<>>, cluster |-> <<>>, nodepool |-> <<>>]
NoAction == [set |-> FALSE, size |-> 0]
SetSize(n) == [set |-> TRUE, size |-> n]
NoBody == [t |-> "none"]
Unbound == [t |-> "unbound"]

\* the field parser at rest
FieldIdle ==
  /\ fkind = "minute"
  /\ ftext = <<>>
  /\ fpc = "idle"
  /\ fresult = NoResult

\* the window scan at rest
ScanIdle ==
  /\ wpc = "idle"
  /\ wentry = NoScheduleRuleEntry
  /\ wT = NoInstant
  /\ wM = NoInstant
  /\ wleft = 0
  /\ wactive = FALSE

\* the resolver at rest
DecideIdle ==
  /\ dpc = "idle"
  /\ dsnap = NoSnapshot
  /\ dtarget = NoTarget
  /\ dT = NoInstant
  /\ dk = 0
  /\ dsched = <<>>
  /\ dconsulted = FALSE
  /\ decision = NoAction

\* no request is being handled
HandlerIdle ==
  /\ hpc = "idle"
  /\ body = NoBody
  /\ nodepool_id = Unbound
  /\ hsize = Unbound
  /\ current = Unbound
  /\ live = 0
  /\ calls = <<>>
  /\ hexc = "none"

(***************************************************************************)
(* Config.__init__ and parse_config_contents as a state machine.  The      *)
(* document is examined one value at a time, each drawn when the code      *)
(* reaches it.                                                             *)
(***************************************************************************)
\* a dict as the sequence of its items, in insertion order
Keys(dict) == {dict[i].key : i \in 1..Len(dict)}

UnsetTimezone == [set |-> FALSE, name |-> <<>>]
UnsetSection == [set |-> FALSE, entries |-> <<>>]
NewConfig == [timezone |-> UnsetTimezone, schedules |-> UnsetSection,
              rules |-> UnsetSection, exceptions |-> UnsetSection]
NoConfig == [set |-> FALSE, config |-> NewConfig]
NoCur == [what |-> "none"]

\* variant for sensitivity: read_config re-initialises the one global instance
Alloc_Global(objects) == 1

\* Config(): a new object, distinct from every object that exists
Alloc(objects) == Len(objects) + 1

\* the attributes of the object with identity a
Deref(a) == IF a = addr THEN self ELSE heap[a]

LoadIdle ==
  /\ pc = "idle"
  /\ self = NewConfig
  /\ acc = <<>>
  /\ cur = NoCur
  /\ exitcode = 0
  /\ held = NoConfig
  /\ heap = <<>>
  /\ addr = 0
  /\ snaps = <<>>

InitLoad ==
  /\ pc = "start"
  /\ self = NewConfig
  /\ acc = <<>>
  /\ cur = NoCur
  /\ exitcode = 0
  /\ held = NoConfig
  /\ heap = <<>>
  /\ addr = Alloc(heap)
  /\ snaps = <<>>
  /\ FieldIdle
  /\ ScanIdle
  /\ DecideIdle
  /\ HandlerIdle

\* variant for sensitivity: a ConfigError is logged and construction carries on to its end
Handler_LogOnly(exc) ==
  IF exc = "ConfigError" THEN [pc |-> "return", code |-> 0]
  ELSE [pc |-> "exit", code |-> 2]

\* the except clauses of Config.__init__: ConfigError is logged and exits
\* with 1; any other exception goes to fatal_exception, which exits with 2.
Handler(exc) ==
  IF exc = "ConfigError" THEN [pc |-> "exit", code |-> 1]
  ELSE [pc |-> "exit", code |-> 2]

\* an exception leaves parse_config_contents at once
Raise(exc) ==
  /\ pc' = Handler(exc).pc
  /\ exitcode' = Handler(exc).code
  /\ UNCHANGED <<self, acc, held>>

\* names and texts of the documents examined
UTC == <<"U", "T", "C">>
CET == <<"C", "E", "T">>
Everyday == <<"e", "v", "e", "r", "y", "d", "a", "y">>
Weekend == <<"w", "e", "e", "k", "e", "n", "d">>
None_ == <<"n", "o", "n", "e">>
CronStartFri == <<"0", " ", "2", "0", " ", "5", " ", "*", " ", "*">>
CronEndMon == <<"0", " ", "6", " ", "1", " ", "*", " ", "*">>
CronStepped == <<"*", "/", "1", "5", " ", "*", " ", "*", " ", "*", " ", "*">>
CronFourFields == <<"0", " ", "6", " ", "1", " ", "*">>
IsoStart == <<"2", "0", "2", "5", "-", "1", "2", "-", "1", "9", " ", "1", "8", ":", "0", "0">>
IsoEnd == <<"2", "0", "2", "5", "-", "1", "2", "-", "2", "2", " ", "0", "6", ":", "0", "0">>
Soon == <<"s", "o", "o", "n">>

TimezoneEnvs == {EnvUnset, EnvSet(<<>>), EnvSet(UTC)}
TimezoneValues == {YAbsent, YStr(UTC), YStr(CET), YStr(<<"X">>), YList}
SectionEnvs == {EnvUnset, EnvSet(<<"x">>)}
SectionValues == {YAbsent, YNull, YList, YDict, YStr(<<"x">>)}

ScheduleNames == {Everyday, None_}
ScheduleSizes == {YAbsent, YInt(0), YInt(-1), YStr(<<"-", "1">>)}
ScheduleRuleValues ==
  {[t |-> "dict", size |-> size, start |-> start, end |-> end] :
     size \in ScheduleSizes,
     start \in {YStr(CronStartFri), YStr(CronStepped), YAbsent},
     end \in {YStr(CronEndMon), YStr(CronFourFields)}}
  \cup {[t |-> t, size |-> YAbsent, start |-> YAbsent, end |-> YAbsent] : t \in {"list", "str"}}
ScheduleValues ==
  {[t |-> t, l |-> <<>>] : t \in {"null", "dict", "str"}}
  \cup {[t |-> "list", l |-> l] : l \in UNION {[1..n -> ScheduleRuleValues] : n \in 0..MaxEntries}}

RuleValues ==
  {[t |-> "dict", schedule |-> schedule, compartment |-> compartment,
    cluster |-> YAbsent, nodepool |-> YAbsent] :
     schedule \in {YStr(Everyday), YStr(Weekend), YAbsent},
     compartment \in {YAbsent, YList}}
  \cup {[t |-> t, schedule |-> YAbsent, compartment |-> YAbsent,
         cluster |-> YAbsent, nodepool |-> YAbsent] : t \in {"list", "str"}}

ExceptionSizes == {YAbsent, YOn, YInt(0), YStr(<<>>), YStr(<<"0">>)}
ExceptionValues ==
  {[t |-> "dict", start |-> range[1], end |-> range[2], compartment |-> YAbsent,
    cluster |-> YAbsent, nodepool |-> YAbsent, size |-> size, comment |-> YAbsent] :
     size \in ExceptionSizes,
     range \in {<<YAbsent, YAbsent>>, <<YStr(IsoStart), YStr(IsoEnd)>>, <<YStr(Soon), YAbsent>>}}
  \cup {[t |-> t, start |-> YAbsent, end |-> YAbsent, compartment |-> YAbsent,
         cluster |-> YAbsent, nodepool |-> YAbsent, size |-> YAbsent,
         comment |-> YAbsent] : t \in {"list", "str"}}

\* Config.__init__ up to parse_config_contents: open() and yaml.safe_load;
\* a file that cannot be read raises (OSError), handled as any exception.
ReadConfig ==
  /\ pc = "start"
  /\ \E readable \in BOOLEAN :
       /\ cur' = [what |-> "file", exc |-> IF readable THEN "none" ELSE "OSError"]
       /\ IF readable
            THEN pc' = "timezone" /\ UNCHANGED <<self, acc, exitcode, held>>
            ELSE Raise("OSError")
  /\ UNCHANGED <<heapvars, notload>>

\* what follows a check of a document value: the result r is stored, or the
\* exception it raised leaves parse_config_contents
TimezoneChecked(env, value, r) ==
  /\ cur' = [what |-> "timezone", env |-> env, raw |-> value, exc |-> r.exc]
  /\ IF r.exc = "none"
       THEN /\ self' = [self EXCEPT !.timezone = [set |-> TRUE, name |-> r.s]]
            /\ pc' = "schedules"
            /\ UNCHANGED <<acc, exitcode, held>>
       ELSE Raise(r.exc)

ScheduleChecked(key, value, r) ==
  /\ cur' = [what |-> "schedule", key |-> key, raw |-> value, exc |-> r.exc]
  /\ IF r.exc = "none"
       THEN /\ acc' = Append(acc, [key |-> key, entries |-> r.entries])
            /\ UNCHANGED <<pc, self, exitcode, held>>
       ELSE Raise(r.exc)

EntryChecked(what, value, r) ==
  /\ cur' = [what |-> what, raw |-> value, exc |-> r.exc]
  /\ IF r.exc = "none"
       THEN /\ acc' = Append(acc, r.entry)
            /\ UNCHANGED <<pc, self, exitcode, held>>
       ELSE Raise(r.exc)

\* self.timezone = self.check_config_option_timezone(None, 'timezone', None)
CheckTimezone ==
  /\ pc = "timezone"
  /\ \E env \in TimezoneEnvs, value \in TimezoneValues :
       TimezoneChecked(env, value, check_config_option_timezone(env, value))
  /\ UNCHANGED <<heapvars, notload>>

\* the value check_config_option_schedules/rules/exceptions looks at:
\* check_config_global_option(name, [], False)
SectionValue(env, value) == check_config_global_option(env, value, YList, FALSE)

\* check_config_option_schedules up to its loop: None is no schedules at
\* all, a list (the default [] of a missing key too) and whatever is not a
\* dict are refused.
SchedulesOpen ==
  /\ pc = "schedules"
  /\ \E env \in SectionEnvs, value \in SectionValues :
       LET v == SectionValue(env, value)
           exc == IF v.t \in {"null", "dict"} THEN "none" ELSE "ConfigError"
       IN
       /\ cur' = [what |-> "schedules", env |-> env, raw |-> value, exc |-> exc]
       /\ IF v.t = "null"
            THEN /\ self' = [self EXCEPT !.schedules = [set |-> TRUE, entries |-> <<>>]]
                 /\ pc' = "rules"
                 /\ UNCHANGED <<acc, exitcode, held>>
          ELSE IF v.t = "dict"
            THEN /\ acc' = <<>>
                 /\ pc' = "schedule_items"
                 /\ UNCHANGED <<self, exitcode, held>>
          ELSE Raise("ConfigError")
  /\ UNCHANGED <<heapvars, notload>>

\* one pass of the loop over dictvalue.items():
\* schedules[key] = self.check_config_schedule_entry(name.key, value)
ScheduleItem ==
  /\ pc = "schedule_items"
  /\ \E key \in ScheduleNames \ Keys(acc), value \in ScheduleValues :
       ScheduleChecked(key, value, check_config_schedule_entry(value))
  /\ UNCHANGED <<heapvars, notload>>

\* the loop is over: self.schedules = Schedules(schedules)
SchedulesClose ==
  /\ pc = "schedule_items"
  /\ self' = [self EXCEPT !.schedules = [set |-> TRUE, entries |-> acc]]
  /\ acc' = <<>>
  /\ cur' = NoCur
  /\ pc' = "rules"
  /\ UNCHANGED <<exitcode, held>>
  /\ UNCHANGED <<heapvars, notload>>

\* check_config_option_rules up to its loop: None is no rules, a dict and
\* whatever is not a list are refused.
RulesOpen ==
  /\ pc = "rules"
  /\ \E env \in SectionEnvs, value \in SectionValues :
       LET v == SectionValue(env, value)
           exc == IF v.t \in {"null", "list"} THEN "none" ELSE "ConfigError"
       IN
       /\ cur' = [what |-> "rules", env |-> env, raw |-> value, exc |-> exc]
       /\ IF v.t = "null"
            THEN /\ self' = [self EXCEPT !.rules = [set |-> TRUE, entries |-> <<>>]]
                 /\ pc' = "exceptions"
                 /\ UNCHANGED <<acc, exitcode, held>>
          ELSE IF v.t = "list"
            THEN /\ acc' = <<>>
                 /\ pc' = "rule_items"
                 /\ UNCHANGED <<self, exitcode, held>>
          ELSE Raise("ConfigError")
  /\ UNCHANGED <<heapvars, notload>>

\* one pass of the loop: rules.append(self.check_config_rule_entry(..))
RuleItem ==
  /\ pc = "rule_items"
  /\ Len(acc) < MaxEntries
  /\ \E value \in RuleValues :
       EntryChecked("rule", value, check_config_rule_entry(value))
  /\ UNCHANGED <<heapvars, notload>>

\* the loop is over: self.rules = Rules(rules)
RulesClose ==
  /\ pc = "rule_items"
  /\ self' = [self EXCEPT !.rules = [set |-> TRUE, entries |-> acc]]
  /\ acc' = <<>>
  /\ cur' = NoCur
  /\ pc' = "exceptions"
  /\ UNCHANGED <<exitcode, held>>
  /\ UNCHANGED <<heapvars, notload>>

\* check_config_option_exceptions up to its loop
ExceptionsOpen ==
  /\ pc = "exceptions"
  /\ \E env \in SectionEnvs, value \in SectionValues :
       LET v == SectionValue(env, value)
           exc == IF v.t \in {"null", "list"} THEN "none" ELSE "ConfigError"
       IN
       /\ cur' = [what |-> "exceptions", env |-> env, raw |-> value, exc |-> exc]
       /\ IF v.t = "null"
            THEN /\ self' = [self EXCEPT !.exceptions = [set |-> TRUE, entries |-> <<>>]]
                 /\ pc' = "process"
                 /\ UNCHANGED <<acc, exitcode, held>>
          ELSE IF v.t = "list"
            THEN /\ acc' = <<>>
                 /\ pc' = "exception_items"
                 /\ UNCHANGED <<self, exitcode, held>>
          ELSE Raise("ConfigError")
  /\ UNCHANGED <<heapvars, notload>>

\* one pass of the loop:
\* exceptions.append(self.check_config_exception_entry(..))
ExceptionItem ==
  /\ pc = "exception_items"
  /\ Len(acc) < MaxEntries
  /\ \E value \in ExceptionValues :
       EntryChecked("exception", value, check_config_exception_entry(value))
  /\ UNCHANGED <<heapvars, notload>>

\* the loop is over: self.exceptions = Exceptions(exceptions)
ExceptionsClose ==
  /\ pc = "exception_items"
  /\ self' = [self EXCEPT !.exceptions = [set |-> TRUE, entries |-> acc]]
  /\ acc' = <<>>
  /\ cur' = NoCur
  /\ pc' = "process"
  /\ UNCHANGED <<exitcode, held>>
  /\ UNCHANGED <<heapvars, notload>>

\* self.exceptions.process_entries(self.timezone), the last statement of
\* parse_config_contents
ProcessEntries ==
  /\ pc = "process"
  /\ self' = [self EXCEPT !.exceptions.entries = process_entries(@, self.timezone.name)]
  /\ cur' = NoCur
  /\ pc' = "return"
  /\ UNCHANGED <<acc, exitcode, held>>
  /\ UNCHANGED <<heapvars, notload>>

\* __init__ ends without an exception: read_config returns the Config
Return ==
  /\ pc = "return"
  /\ held' = [set |-> TRUE, config |-> self]
  /\ heap' = IF addr \in 1..Len(heap) THEN [heap EXCEPT ![addr] = self] ELSE Append(heap, self)
  /\ snaps' = Append(snaps, [ref |-> addr, seen |-> self])
  /\ pc' = "returned"
  /\ UNCHANGED <<self, acc, cur, exitcode, addr>>
  /\ UNCHANGED notload

NextLoad ==
  \/ ReadConfig
  \/ CheckTimezone
  \/ SchedulesOpen
  \/ ScheduleItem
  \/ SchedulesClose
  \/ RulesOpen
  \/ RuleItem
  \/ RulesClose
  \/ ExceptionsOpen
  \/ ExceptionItem
  \/ ExceptionsClose
  \/ ProcessEntries
  \/ Return

SpecLoad == InitLoad /\ [][NextLoad]_vars

(***************************************************************************)
(* Config.read_config() called again while the caller still holds the      *)
(* Config of an earlier call.                                              *)
(***************************************************************************)
\* a document of the shape of the example configuration, and the Config
\* the first call returned for it
FirstScheduleValue ==
  [t |-> "list",
   l |-> <<[t |-> "dict", size |-> YInt(0), start |-> YStr(CronStartFri),
            end |-> YStr(CronEndMon)]>>]
FirstRuleValue ==
  [t |-> "dict", schedule |-> YStr(Everyday), compartment |-> YAbsent,
   cluster |-> YAbsent, nodepool |-> YAbsent]
FirstExceptionValue ==
  [t |-> "dict", start |-> YStr(IsoStart), end |-> YStr(IsoEnd), compartment |-> YAbsent,
   cluster |-> YAbsent, nodepool |-> YAbsent, size |-> YInt(0), comment |-> YAbsent]
FirstConfig ==
  [timezone |-> [set |-> TRUE, name |-> check_config_option_timezone(EnvUnset, YStr(CET)).s],
   schedules |-> [set |-> TRUE,
                  entries |-> <<[key |-> Everyday,
                                 entries |-> check_config_schedule_entry(FirstScheduleValue).entries]>>],
   rules |-> [set |-> TRUE, entries |-> <<check_config_rule_entry(FirstRuleValue).entry>>],
   exceptions |-> [set |-> TRUE,
                   entries |-> process_entries(
                                 <<check_config_exception_entry(FirstExceptionValue).entry>>, CET)]]

\* the second call is about to run __init__ on its new object
InitReload ==
  /\ pc = "start"
  /\ self = NewConfig
  /\ acc = <<>>
  /\ cur = NoCur
  /\ exitcode = 0
  /\ held = [set |-> TRUE, config |-> FirstConfig]
  /\ heap = <<FirstConfig>>
  /\ addr = Alloc(heap)
  /\ snaps = <<[ref |-> 1, seen |-> FirstConfig]>>
  /\ FieldIdle
  /\ ScanIdle
  /\ DecideIdle
  /\ HandlerIdle

SpecReload == InitReload /\ [][NextLoad]_vars

(***************************************************************************)
(* The field parser applied to every short text over FieldAlphabet.        *)
(***************************************************************************)
FieldAlphabet == {"0", "1", "3", "5", "6", "*", ",", "/", "-", "x"}
FieldTexts == UNION {[1..n -> FieldAlphabet] : n \in 0..MaxLen}

InitField ==
  /\ fkind \in FieldKinds
  /\ ftext \in FieldTexts
  /\ fpc = "ready"
  /\ fresult = NoResult
  /\ LoadIdle
  /\ ScanIdle
  /\ DecideIdle
  /\ HandlerIdle

ParseField ==
  /\ fpc = "ready"
  /\ fresult' = CronJobFieldSpec(ftext, Lowest(fkind), Highest(fkind))
  /\ fpc' = "done"
  /\ UNCHANGED <<fkind, ftext>>
  /\ UNCHANGED <<loadvars, scanvars, decvars, reqvars>>

NextField == ParseField

SpecField == InitField /\ [][NextField]_vars

(***************************************************************************)
(* Window activity (sections 4.2 and 4.3 of the specification).  No code   *)
(* under src/ tests a ScheduleRuleEntry against an instant: the scan is    *)
(* modelled from the specification, on entries built by the loader.        *)
(* An instant is a minute of the calendar in the configured time zone;     *)
(* dow counts from 0 = Sunday.                                             *)
(***************************************************************************)
DayOfWeek(year, month, day) ==
  LET a == (14 - month) \div 12
      y == year - a
      m == month + 12 * a - 2
  IN (day + y + (y \div 4) - (y \div 100) + (y \div 400) + ((31 * m) \div 12)) % 7

Instant(year, month, day, hour, minute) ==
  [year |-> year, month |-> month, day |-> day, hour |-> hour, minute |-> minute,
   dow |-> DayOfWeek(year, month, day)]

\* the minute before t
PrevDay(t) ==
  IF t.day > 1 THEN [t EXCEPT !.day = @ - 1, !.dow = (@ + 6) % 7]
  ELSE IF t.month > 1
    THEN [t EXCEPT !.month = @ - 1, !.day = DaysInMonth(t.year, t.month - 1),
                   !.dow = (@ + 6) % 7]
  ELSE [t EXCEPT !.year = @ - 1, !.month = 12, !.day = 31, !.dow = (@ + 6) % 7]

PrevMinute(t) ==
  IF t.minute > 0 THEN [t EXCEPT !.minute = @ - 1]
  ELSE IF t.hour > 0 THEN [t EXCEPT !.hour = @ - 1, !.minute = 59]
  ELSE [PrevDay(t) EXCEPT !.hour = 23, !.minute = 59]

\* section 4.2: all five fields match at once
matches(spec, t) ==
  /\ t.minute \in spec.minute
  /\ t.hour \in spec.hour
  /\ t.day \in spec.day
  /\ t.month \in spec.month
  /\ t.dow \in spec.dow

\* section 4.3: the horizon of the backward scan, in minutes
Horizon == 366 * 24 * 60

\* the scan of one entry starts at T itself
ScanFrom(entry, t) ==
  /\ wpc' = "scan"
  /\ wentry' = entry
  /\ wT' = t
  /\ wM' = t
  /\ wleft' = Horizon
  /\ wactive' = FALSE

\* variant for sensitivity: end is tested before start, so end wins a tie
ScanMinute_EndFirst ==
  /\ wpc = "scan"
  /\ IF matches(wentry.end, wM) /\ wM # wT
       THEN wpc' = "done" /\ wactive' = FALSE /\ UNCHANGED <<wM, wleft>>
     ELSE IF matches(wentry.start, wM)
       THEN wpc' = "done" /\ wactive' = TRUE /\ UNCHANGED <<wM, wleft>>
     ELSE IF wleft = 1
       THEN wpc' = "done" /\ wactive' = FALSE /\ wleft' = 0 /\ UNCHANGED wM
     ELSE wM' = PrevMinute(wM) /\ wleft' = wleft - 1 /\ UNCHANGED <<wpc, wactive>>
  /\ UNCHANGED <<wentry, wT>>

\* one minute of the scan: a start at M ends it active (also when end
\* matches M), an end at M < T ends it inactive, the last minute of the
\* horizon ends it inactive, else the scan moves one minute back
ScanMinute ==
  /\ wpc = "scan"
  /\ IF matches(wentry.start, wM)
       THEN wpc' = "done" /\ wactive' = TRUE /\ UNCHANGED <<wM, wleft>>
     ELSE IF matches(wentry.end, wM) /\ wM # wT
       THEN wpc' = "done" /\ wactive' = FALSE /\ UNCHANGED <<wM, wleft>>
     ELSE IF wleft = 1
       THEN wpc' = "done" /\ wactive' = FALSE /\ wleft' = 0 /\ UNCHANGED wM
     ELSE wM' = PrevMinute(wM) /\ wleft' = wleft - 1 /\ UNCHANGED <<wpc, wactive>>
  /\ UNCHANGED <<wentry, wT>>

ScanStep ==
  /\ ScanMinute
  /\ UNCHANGED <<fieldvars, loadvars, decvars, reqvars>>

\* cron texts of window entries
CronNever == <<"0", " ", "0", " ", "3", "1", " ", "2", " ", "*">>
WindowValue(start, end) ==
  [t |-> "dict", size |-> YInt(0), start |-> YStr(start), end |-> YStr(end)]
FriMonEntry == check_config_schedule_rule_entry(WindowValue(CronStartFri, CronEndMon)).entry
TieEntry == check_config_schedule_rule_entry(WindowValue(CronStartFri, CronStartFri)).entry
NeverEntry == check_config_schedule_rule_entry(WindowValue(CronNever, CronNever)).entry

\* the instants of section 8, and instants on a boundary
Jan05_1900 == Instant(2025, 1, 5, 19, 0)
Jan05_2000 == Instant(2025, 1, 5, 20, 0)
Jan06_0200 == Instant(2025, 1, 6, 2, 0)
Feb01_0500 == Instant(2025, 2, 1, 5, 0)
Feb01_0600 == Instant(2025, 2, 1, 6, 0)
Feb01_0700 == Instant(2025, 2, 1, 7, 0)

ScanCases ==
  {<<FriMonEntry, t>> : t \in {Jan05_1900, Jan05_2000, Jan06_0200, Feb01_0500,
                               Feb01_0600, Feb01_0700}}
  \cup {<<TieEntry, Jan06_0200>>, <<NeverEntry, Jan06_0200>>}

InitScan ==
  /\ \E c \in ScanCases :
       /\ wentry = c[1]
       /\ wT = c[2]
       /\ wM = c[2]
  /\ wpc = "scan"
  /\ wleft = Horizon
  /\ wactive = FALSE
  /\ FieldIdle
  /\ LoadIdle
  /\ DecideIdle
  /\ HandlerIdle

NextScan == ScanStep

SpecScan == InitScan /\ [][NextScan]_vars

(***************************************************************************)
(* The resolver (sections 4.4 to 4.8 of the specification).  No code under *)
(* src/ resolves a decision: it is modelled from the specification, on     *)
(* Configs built by the loader.                                            *)
(***************************************************************************)
\* section 4.5: a filter field that is absent or empty matches anything
FieldMatches(f, value) == f.none \/ f.s = <<>> \/ f.s = value
FilterMatches(entry, target) ==
  /\ FieldMatches(entry.compartment, target.compartment)
  /\ FieldMatches(entry.cluster, target.cluster)
  /\ FieldMatches(entry.nodepool, target.nodepool)

\* instants and datetimes compared as (year, month, day, hour, minute, second)
Stamp(d) == <<d.year, d.month, d.day, d.hour, d.minute, d.second>>
StampOf(t) == <<t.year, t.month, t.day, t.hour, t.minute, 0>>
StampLeq(a, b) ==
  \/ a = b
  \/ \E i \in 1..6 : a[i] < b[i] /\ \A j \in 1..(i - 1) : a[j] = b[j]

\* section 4.7: the filter matches and the instant lies in [start, end]
ExceptionMatches(e, target, t) ==
  /\ FilterMatches(e, target)
  /\ e.start.none \/ StampLeq(Stamp(e.start), StampOf(t))
  /\ e.end.none \/ StampLeq(StampOf(t), Stamp(e.end))

\* variant for sensitivity: the size is tested for truth, so 0 reads as absent
ExceptionDecision_Truthy(e) ==
  IF e.size.none \/ e.size.v = 0 THEN NoAction ELSE SetSize(e.size.v)

\* section 4.8, step 1: the decision of a matching exception
ExceptionDecision(e) == IF e.size.none THEN NoAction ELSE SetSize(e.size.v)

\* the entries of the schedule of that name
ScheduleNamed(schedules, name) ==
  schedules[CHOOSE i \in 1..Len(schedules) : schedules[i].key = name].entries

DecideUnchanged == UNCHANGED <<fieldvars, loadvars, reqvars, dsnap, dtarget, dT>>

\* section 4.7: the exceptions in order; the first match decides
DecideException ==
  /\ dpc = "exceptions"
  /\ IF dk > Len(dsnap.exceptions.entries)
       THEN /\ dpc' = "rules"
            /\ dk' = 1
            /\ dconsulted' = TRUE
            /\ UNCHANGED <<decision, dsched>>
     ELSE IF ExceptionMatches(dsnap.exceptions.entries[dk], dtarget, dT)
       THEN /\ decision' = ExceptionDecision(dsnap.exceptions.entries[dk])
            /\ dpc' = "decided"
            /\ UNCHANGED <<dk, dconsulted, dsched>>
     ELSE /\ dk' = dk + 1
          /\ UNCHANGED <<dpc, dconsulted, decision, dsched>>
  /\ UNCHANGED scanvars
  /\ DecideUnchanged

\* section 4.6: the rules in order; the first match names the schedule
DecideRule ==
  /\ dpc = "rules"
  /\ IF dk > Len(dsnap.rules.entries)
       THEN /\ decision' = NoAction
            /\ dpc' = "decided"
            /\ UNCHANGED <<dk, dsched>>
     ELSE IF FilterMatches(dsnap.rules.entries[dk], dtarget)
       THEN /\ dsnap.rules.entries[dk].schedule \in Keys(dsnap.schedules.entries)
            /\ dsched' = ScheduleNamed(dsnap.schedules.entries, dsnap.rules.entries[dk].schedule)
            /\ dpc' = "schedule"
            /\ dk' = 1
            /\ UNCHANGED decision
     ELSE /\ dk' = dk + 1
          /\ UNCHANGED <<dpc, decision, dsched>>
  /\ UNCHANGED <<dconsulted, scanvars>>
  /\ DecideUnchanged

\* section 4.4: the window entries in order; the activity of the next one
\* is asked, or none is left
DecideEntry ==
  /\ dpc = "schedule"
  /\ IF dk > Len(dsched)
       THEN /\ decision' = NoAction
            /\ dpc' = "decided"
            /\ UNCHANGED scanvars
     ELSE /\ ScanFrom(dsched[dk], dT)
          /\ dpc' = "scanning"
          /\ UNCHANGED decision
  /\ UNCHANGED <<dk, dsched, dconsulted>>
  /\ DecideUnchanged

\* the first active entry gives the size
DecideScanned ==
  /\ dpc = "scanning"
  /\ wpc = "done"
  /\ IF wactive
       THEN /\ decision' = SetSize(wentry.size.v)
            /\ dpc' = "decided"
            /\ UNCHANGED dk
     ELSE /\ dk' = dk + 1
          /\ dpc' = "schedule"
          /\ UNCHANGED decision
  /\ wpc' = "idle"
  /\ UNCHANGED <<wentry, wT, wM, wleft, wactive, dsched, dconsulted>>
  /\ DecideUnchanged

\* the documents the resolved Configs are loaded from
MaxExceptions == 2
CronEvening == <<"0", " ", "1", "8", " ", "*", " ", "*", " ", "*">>
CronMorning == <<"0", " ", "6", " ", "*", " ", "*", " ", "*">>
NightSchedule == [t |-> "list", l |-> <<WindowValue(CronEvening, CronMorning)>>]
CompA == <<"a">>
CompB == <<"b">>
Targets == {[compartment |-> c, cluster |-> <<"k">>, nodepool |-> <<"n">>] : c \in {CompA, CompB}}
RuleDocs ==
  {[FirstRuleValue EXCEPT !.compartment = f] : f \in {YAbsent, YStr(CompB)}}
RuleLists == {<<>>} \cup {<<r>> : r \in RuleDocs}
ExceptionDocs ==
  {FirstExceptionValue,
   [FirstExceptionValue EXCEPT !.start = YAbsent, !.end = YAbsent, !.size = YAbsent,
                               !.compartment = YStr(CompA)],
   [FirstExceptionValue EXCEPT !.start = YStr(IsoEnd), !.end = YAbsent, !.size = YInt(2)]}
ExceptionLists == UNION {[1..n -> ExceptionDocs] : n \in 0..MaxExceptions}

\* the Config the loader returns for a document with these sections
ConfigOf(rules, exceptions) ==
  [timezone |-> [set |-> TRUE, name |-> CET],
   schedules |-> [set |-> TRUE,
                  entries |-> <<[key |-> Everyday,
                                 entries |-> check_config_schedule_entry(NightSchedule).entries]>>],
   rules |-> [set |-> TRUE,
              entries |-> [i \in 1..Len(rules) |-> check_config_rule_entry(rules[i]).entry]],
   exceptions |-> [set |-> TRUE,
                   entries |-> process_entries(
                     [i \in 1..Len(exceptions) |-> check_config_exception_entry(exceptions[i]).entry],
                     CET)]]

Dec19_1759 == Instant(2025, 12, 19, 17, 59)
Dec19_1800 == Instant(2025, 12, 19, 18, 0)
Dec20_1200 == Instant(2025, 12, 20, 12, 0)
Dec21_2300 == Instant(2025, 12, 21, 23, 0)
Dec22_0600 == Instant(2025, 12, 22, 6, 0)
Dec22_0601 == Instant(2025, 12, 22, 6, 1)
DecideInstants == {Dec19_1759, Dec19_1800, Dec20_1200, Dec21_2300, Dec22_0600, Dec22_0601}

InitDecide ==
  /\ dpc = "exceptions"
  /\ \E rules \in RuleLists, exceptions \in ExceptionLists : dsnap = ConfigOf(rules, exceptions)
  /\ dtarget \in Targets
  /\ dT \in DecideInstants
  /\ dk = 1
  /\ dsched = <<>>
  /\ dconsulted = FALSE
  /\ decision = NoAction
  /\ FieldIdle
  /\ LoadIdle
  /\ ScanIdle
  /\ HandlerIdle

NextDecide ==
  \/ DecideException
  \/ DecideRule
  \/ DecideEntry
  \/ ScanStep
  \/ DecideScanned

SpecDecide == InitDecide /\ [][NextDecide]_vars

(***************************************************************************)
(* handler (src/func.py), one request at a time.  The request body is      *)
(* what data.getvalue() holds: no data at all, bytes that are no JSON, or  *)
(* a JSON value; JSON values are written as the YAML values above, with    *)
(* "float" for a number with a fraction (n its integer part) and "nan"     *)
(* for NaN.  A local is Unbound until an assignment to it has run.         *)
(* The model is of a call of handler; the module body above it (lines      *)
(* 16-20) loads the configuration and ends the importing process.          *)
(***************************************************************************)
JFloat(n) == [t |-> "float", n |-> n, s |-> <<>>]
JNaN == [t |-> "nan", n |-> 0, s |-> <<>>]
NoData == [t |-> "nodata", nodepool_id |-> YAbsent, size |-> YAbsent]
NotJson == [t |-> "notjson", nodepool_id |-> YAbsent, size |-> YAbsent]
JsonOther(t) == [t |-> t, nodepool_id |-> YAbsent, size |-> YAbsent]
JsonObject(id, sz) == [t |-> "object", nodepool_id |-> id, size |-> sz]

\* dict.get(key): None when the key is missing
Get(value) == IF value.t = "absent" THEN YNull ELSE value

\* int(size): the integer, or the exception int() raises
int(value) ==
  IF value.t \in {"int", "bool", "float"} THEN [exc |-> "none", n |-> value.n]
  ELSE IF value.t = "nan" THEN [exc |-> "ValueError", n |-> 0]
  ELSE IF value.t = "str"
    THEN (IF PyInt(value.s).ok THEN [exc |-> "none", n |-> PyInt(value.s).v]
          ELSE [exc |-> "ValueError", n |-> 0])
  ELSE [exc |-> "TypeError", n |-> 0]

\* variant for sensitivity: the size is formatted with %s, which takes any value
FormatRequested_AnySize(id, sz) ==
  IF id = Unbound \/ sz = Unbound THEN "UnboundLocalError" ELSE "none"

\* line 39: "... '%s' change size: %d" % (nodepool_id, size); a local that
\* was never assigned raises UnboundLocalError, %d refuses what is no number
FormatRequested(id, sz) ==
  IF id = Unbound \/ sz = Unbound THEN "UnboundLocalError"
  ELSE IF sz.t = "nan" THEN "ValueError"
  ELSE IF sz.t \notin {"int", "bool", "float"} THEN "TypeError"
  ELSE "none"

\* variant for sensitivity: a pool is only ever shrunk
NoChangeNeeded_AtMost(cur_size, new_size) == cur_size <= new_size

\* line 47: current == size
NoChangeNeeded(cur_size, new_size) == cur_size = new_size

GetCall == [op |-> "get", size |-> 0]
UpdateCall(n) == [op |-> "update", size |-> n]

HandlerFrame == UNCHANGED <<fieldvars, loadvars, scanvars, decvars, body>>

\* an exception inside the try block is caught (line 36), printed, and the
\* handler goes on at line 39
Caught == hpc' = "format" /\ hexc' = "none"

\* an exception outside the try block leaves the handler
Leaves(exc) == hpc' = "raised" /\ hexc' = exc

\* line 25: body = json.loads(data.getvalue())
Parse ==
  /\ hpc = "parse"
  /\ IF body.t \in {"nodata", "notjson"} THEN Caught ELSE hpc' = "nodepool_id" /\ hexc' = "none"
  /\ UNCHANGED <<nodepool_id, hsize, current, live, calls>>
  /\ HandlerFrame

\* lines 26-28: nodepool_id = body.get("nodepool_id"); raise "Missing ..."
\* (raising a str is a TypeError, caught like the rest)
GetNodepoolId ==
  /\ hpc = "nodepool_id"
  /\ IF body.t # "object"
       THEN Caught /\ UNCHANGED nodepool_id
     ELSE /\ nodepool_id' = Get(body.nodepool_id)
          /\ IF Get(body.nodepool_id) \in {YNull, YStr(<<>>)}
               THEN Caught
               ELSE hpc' = "size" /\ hexc' = "none"
  /\ UNCHANGED <<hsize, current, live, calls>>
  /\ HandlerFrame

\* lines 29-31: size = body.get("size"); raise "Missing size parameter"
GetSize ==
  /\ hpc = "size"
  /\ hsize' = Get(body.size)
  /\ IF Get(body.size) \in {YNull, YStr(<<>>)}
       THEN Caught
       ELSE hpc' = "int" /\ hexc' = "none"
  /\ UNCHANGED <<nodepool_id, current, live, calls>>
  /\ HandlerFrame

\* lines 32-35: size = int(size); ValueError and TypeError both end in the
\* outer except clause, size keeping the value it had
ConvertSize ==
  /\ hpc = "int"
  /\ hsize' = IF int(hsize).exc = "none" THEN YInt(int(hsize).n) ELSE hsize
  /\ hpc' = "format"
  /\ hexc' = "none"
  /\ UNCHANGED <<nodepool_id, current, live, calls>>
  /\ HandlerFrame

\* line 39
PrintRequested ==
  /\ hpc = "format"
  /\ IF FormatRequested(nodepool_id, hsize) = "none"
       THEN hpc' = "signer" /\ hexc' = "none"
       ELSE Leaves(FormatRequested(nodepool_id, hsize))
  /\ UNCHANGED <<nodepool_id, hsize, current, live, calls>>
  /\ HandlerFrame

\* line 41: the resource principal signer, which may not be available
GetSigner ==
  /\ hpc = "signer"
  /\ \E ok \in BOOLEAN : IF ok THEN hpc' = "read" /\ hexc' = "none" ELSE Leaves("Exception")
  /\ UNCHANGED <<nodepool_id, hsize, current, live, calls>>
  /\ HandlerFrame

\* lines 42-45: get_oke_node_pool calls client.get_node_pool and re-raises
\* what it raises; current = np["size"]
ReadNodePool ==
  /\ hpc = "read"
  /\ calls' = Append(calls, GetCall)
  /\ \E ok \in BOOLEAN :
       IF ok THEN hpc' = "compare" /\ hexc' = "none" /\ current' = YInt(live)
       ELSE Leaves("Exception") /\ UNCHANGED current
  /\ UNCHANGED <<nodepool_id, hsize, live>>
  /\ HandlerFrame

\* lines 47-48: nothing to do
NoChange ==
  /\ hpc = "compare"
  /\ NoChangeNeeded(current.n, hsize.n)
  /\ hpc' = "respond"
  /\ UNCHANGED <<nodepool_id, hsize, current, live, calls, hexc>>
  /\ HandlerFrame

\* lines 49-51: set_oke_node_pool calls client.update_node_pool, then
\* client.get_node_pool, and re-raises what either raises
UpdateNodePool ==
  /\ hpc = "compare"
  /\ ~NoChangeNeeded(current.n, hsize.n)
  /\ \E updated \in BOOLEAN, read \in BOOLEAN :
       /\ calls' = IF updated THEN calls \o <<UpdateCall(hsize.n), GetCall>>
                   ELSE Append(calls, UpdateCall(hsize.n))
       /\ live' = IF updated THEN hsize.n ELSE live
       /\ IF updated /\ read THEN hpc' = "respond" /\ hexc' = "none" ELSE Leaves("Exception")
  /\ UNCHANGED <<nodepool_id, hsize, current>>
  /\ HandlerFrame

\* lines 53-57
Respond ==
  /\ hpc = "respond"
  /\ hpc' = "returned"
  /\ UNCHANGED <<nodepool_id, hsize, current, live, calls, hexc>>
  /\ HandlerFrame

\* request bodies and pool sizes
MaxSize == 2
OcidText == <<"o", "c", "i", "d">>
NodepoolIds == {YAbsent, YNull, YStr(<<>>), YStr(OcidText), YInt(7), YList}
RequestSizes ==
  {YAbsent, YNull, YStr(<<>>), YStr(<<"a", "b", "c">>), YStr(<<"2">>), YInt(0), YInt(2),
   YInt(-1), YOn, JFloat(2), JNaN, YList}
Bodies ==
  {NoData, NotJson, JsonOther("null"), JsonOther("list")}
  \cup {JsonObject(id, sz) : id \in NodepoolIds, sz \in RequestSizes}

InitHandler ==
  /\ hpc = "parse"
  /\ body \in Bodies
  /\ nodepool_id = Unbound
  /\ hsize = Unbound
  /\ current = Unbound
  /\ live \in 0..MaxSize
  /\ calls = <<>>
  /\ hexc = "none"
  /\ FieldIdle
  /\ LoadIdle
  /\ ScanIdle
  /\ DecideIdle

NextHandler ==
  \/ Parse
  \/ GetNodepoolId
  \/ GetSize
  \/ ConvertSize
  \/ PrintRequested
  \/ GetSigner
  \/ ReadNodePool
  \/ NoChange
  \/ UpdateNodePool
  \/ Respond

SpecHandler == InitHandler /\ [][NextHandler]_vars

(***************************************************************************)
(* The grammar of section 4.1, read off the field text itself.             *)
(***************************************************************************)
FieldDone == fpc = "done"
FLow == Lowest(fkind)
FHigh == Highest(fkind)
FEntries == Split(ftext, ",")

InBoundsLiteral(tok) == IsDigits(tok) /\ DigitsVal(tok) \in FLow..FHigh
SimpleEntry(e) == e = <<"*">> \/ InBoundsLiteral(e)
SimpleSet(e) == IF e = <<"*">> THEN FLow..FHigh ELSE {DigitsVal(e)}

\* C1: once parsed, a field text whose comma-separated entries are each "*"
\* or one in-bounds integer literal yields exactly the union of the entries'
\* sets: lowest..highest for "*", {v} for the literal v, duplicates collapsed.
C1_StarAndValues ==
  (FieldDone /\ \A i \in 1..Len(FEntries) : SimpleEntry(FEntries[i]))
    => /\ fresult.exc = "none"
       /\ fresult.values = UNION {SimpleSet(FEntries[i]) : i \in 1..Len(FEntries)}

\* "5,5" over the minute field has been parsed to {5}
C1_Witness ==
  /\ FieldDone
  /\ fkind = "minute"
  /\ ftext = <<"5", ",", "5">>
  /\ fresult = [exc |-> "none", values |-> {5}]

FBounds == Split(ftext, "-")
IsPlainRange ==
  /\ Len(FBounds) = 2
  /\ InBoundsLiteral(FBounds[1])
  /\ InBoundsLiteral(FBounds[2])
  /\ DigitsVal(FBounds[1]) <= DigitsVal(FBounds[2])

\* C2: once parsed, a field text "a-b" with in-bounds integers a <= b has
\* succeeded and yields exactly the inclusive set a..b.
C2_RangeYieldsSpan ==
  (FieldDone /\ IsPlainRange)
    => /\ fresult.exc = "none"
       /\ fresult.values = DigitsVal(FBounds[1])..DigitsVal(FBounds[2])

FSplits == Split(ftext, "/")
StepRangeLow ==
  IF FSplits[1] = <<"*">> THEN FLow
  ELSE DigitsVal(Split(FSplits[1], "-")[1])
StepRangeHigh ==
  IF FSplits[1] = <<"*">> THEN FHigh
  ELSE LET b == Split(FSplits[1], "-") IN DigitsVal(b[Len(b)])
IsSteppedRange ==
  /\ Len(FSplits) = 2
  /\ IsDigits(FSplits[2]) /\ DigitsVal(FSplits[2]) >= 1
  /\ LET b == Split(FSplits[1], "-") IN
       \/ FSplits[1] = <<"*">>
       \/ Len(b) = 1 /\ InBoundsLiteral(b[1])
       \/ /\ Len(b) = 2 /\ InBoundsLiteral(b[1]) /\ InBoundsLiteral(b[2])
          /\ DigitsVal(b[1]) <= DigitsVal(b[2])

\* C3: once parsed, a field text "range/step" with step >= 1 has succeeded
\* and yields every step-th integer from the range's low bound up to its
\* high bound; "*" as the range is lowest..highest.
C3_StepYieldsEveryNth ==
  (FieldDone /\ IsSteppedRange)
    => /\ fresult.exc = "none"
       /\ fresult.values =
            {v \in StepRangeLow..StepRangeHigh :
               (v - StepRangeLow) % DigitsVal(FSplits[2]) = 0}

\* the malformed shapes section 4.1 lists, for one entry
MalformedEntry(e) ==
  LET splits == Split(e, "/")
      bounds == Split(splits[1], "-")
      toks == {bounds[i] : i \in 1..Len(bounds)} \ {<<"*">>}
  IN \/ Len(splits) > 2                                  \* more than one '/'
     \/ Len(bounds) > 2                                  \* more than one '-'
     \/ \E t \in toks : ~IsDigits(t)                     \* non-integer value
     \/ \E t \in toks : IsDigits(t) /\ DigitsVal(t) \notin FLow..FHigh
     \/ /\ Len(bounds) = 2                               \* low > high
        /\ IsDigits(bounds[1]) /\ IsDigits(bounds[2])
        /\ DigitsVal(bounds[1]) > DigitsVal(bounds[2])
     \/ /\ Len(splits) = 2                               \* step < 1, or no integer
        /\ (~IsDigits(splits[2]) \/ DigitsVal(splits[2]) < 1)
Malformed == \E i \in 1..Len(FEntries) : MalformedEntry(FEntries[i])

SpecBounds ==
  [k \in FieldKinds |->
     CASE k = "minute" -> 0..59 [] k = "hour" -> 0..59 [] k = "day" -> 1..31
       [] k = "month" -> 1..12 [] k = "dow" -> 0..6]

\* C5: every set of values the field parser returns is non-empty and lies
\* within the bounds of its field kind.
C5_ValuesWithinBounds ==
  (FieldDone /\ fresult.exc = "none")
    => fresult.values # {} /\ fresult.values \subseteq SpecBounds[fkind]

\* "1,*" over the day field has been parsed to 1..31
C5_Witness ==
  /\ FieldDone
  /\ fkind = "day"
  /\ ftext = <<"1", ",", "*">>
  /\ fresult = [exc |-> "none", values |-> 1..31]

(***************************************************************************)
(* Claims about the configuration loader.                                  *)
(***************************************************************************)
Loaded == held.set
LoadedSchedules == held.config.schedules.entries
LoadedRules == held.config.rules.entries

\* C6: in every Config that has been returned, every window entry of every
\* schedule has a size that is present and not negative.
C6_ScheduleSizesNonNegative ==
  Loaded =>
    \A i \in 1..Len(LoadedSchedules) :
      \A j \in 1..Len(LoadedSchedules[i].entries) :
        LET size == LoadedSchedules[i].entries[j].size IN ~size.none /\ size.v >= 0

\* C7: no Config is returned in which a rule names a schedule that is not a
\* key of the schedules mapping.
C7_RuleSchedulesExist ==
  Loaded =>
    \A i \in 1..Len(LoadedRules) : LoadedRules[i].schedule \in Keys(LoadedSchedules)

SectionsOf(config) ==
  <<config.timezone.set, config.schedules.set, config.rules.set, config.exceptions.set>>

\* C8: load is all-or-nothing: a step whose check raised ends the process
\* (sys.exit) with nothing returned to the caller, and a Config the caller
\* holds has all four of timezone, schedules, rules and exceptions set.
C8_AllOrNothing ==
  /\ (cur.what # "none" /\ cur.exc # "none") => (pc = "exit" /\ exitcode \in {1, 2})
  /\ pc = "exit" => ~Loaded
  /\ Loaded => (SectionsOf(held.config) = <<TRUE, TRUE, TRUE, TRUE>> /\ exitcode = 0)

\* the check of the schedules section has raised after timezone was set:
\* the process has exited and the caller holds nothing
C8_Witness ==
  /\ pc = "exit"
  /\ exitcode = 1
  /\ cur.what = "schedule" /\ cur.exc = "ConfigError"
  /\ SectionsOf(self) = <<TRUE, FALSE, FALSE, FALSE>>
  /\ ~Loaded

\* C9: a schedule declared as the empty mapping {} is accepted and becomes
\* a schedule with zero window entries.
C9_EmptyMappingScheduleAccepted ==
  (cur.what = "schedule" /\ cur.raw = [t |-> "dict", l |-> <<>>])
    => /\ cur.exc = "none"
       /\ pc = "schedule_items"
       /\ acc[Len(acc)] = [key |-> cur.key, entries |-> <<>>]

\* C10: an exception entry with no size key, or with size written "on", is
\* loaded with an absent size (None), never with a concrete integer.
C10_OnIsAbsentSize ==
  (cur.what = "exception" /\ cur.raw.t = "dict" /\ cur.raw.size \in {YAbsent, YOn}
     /\ cur.exc = "none")
    => acc[Len(acc)].size.none

(***************************************************************************)
(* Reload.                                                                 *)
(***************************************************************************)
Returned_(i) == Deref(snaps[i].ref)

\* C11: at every step of a later load and after it, every Config that
\* read_config returned earlier still has the timezone, schedules, rules and
\* exceptions its caller saw when it was returned, and the Configs returned
\* by different calls are different objects.
C11_ReloadIsolation ==
  /\ \A i \in 1..Len(snaps) : Returned_(i) = snaps[i].seen
  /\ \A i, j \in 1..Len(snaps) : i # j => snaps[i].ref # snaps[j].ref

\* the second load has returned a Config that differs from the first in its
\* timezone and its exceptions, and the first is as it was
C11_Witness ==
  /\ pc = "returned"
  /\ Len(snaps) = 2
  /\ held.config = Returned_(2)
  /\ Returned_(2).timezone # Returned_(1).timezone
  /\ Returned_(2).exceptions # Returned_(1).exceptions
  /\ Returned_(1) = FirstConfig

(***************************************************************************)
(* The resolver and the window scan.                                       *)
(***************************************************************************)
\* a count that grows with the calendar order of datetimes, in seconds
\* (years counted from 2000 to stay within 32 bits)
Ordinal(year, month, day, hour, minute, second) ==
  (((((year - 2000) * 12 + month) * 31 + day) * 24 + hour) * 60 + minute) * 60 + second
InstantOrdinal(t) == Ordinal(t.year, t.month, t.day, t.hour, t.minute, 0)
DateOrdinal(d) == Ordinal(d.year, d.month, d.day, d.hour, d.minute, d.second)

Applies(e) ==
  /\ \A f \in {"compartment", "cluster", "nodepool"} :
        e[f].none \/ e[f].s = <<>> \/ e[f].s = dtarget[f]
  /\ e.start.none \/ DateOrdinal(e.start) <= InstantOrdinal(dT)
  /\ e.end.none \/ InstantOrdinal(dT) <= DateOrdinal(e.end)
DExceptions == dsnap.exceptions.entries
Applying == {i \in 1..Len(DExceptions) : Applies(DExceptions[i])}
FirstApplying == CHOOSE i \in Applying : \A j \in Applying : i <= j
HolidayOnly == ConfigOf(<<>>, <<FirstExceptionValue>>).exceptions.entries

\* C12: the rule list and the schedules are consulted only when no
\* exception applies to the target at the instant (filter matches, instant
\* within [start, end], both ends inclusive, an absent end unbounded); when
\* one applies, the decision is that of the first one in order: SetSize of
\* its size when it has one, NoAction when it has none.  With the holiday
\* exception of the example (2025-12-19 18:00 to 2025-12-22 06:00, size 0)
\* alone, the decision at 2025-12-20 12:00 is SetSize(0).
C12_FirstExceptionDecides ==
  /\ (dconsulted \/ wpc # "idle") => Applying = {}
  /\ (dpc = "decided" /\ Applying = {}) => dconsulted
  /\ (dpc = "decided" /\ Applying # {}) =>
        /\ ~dconsulted
        /\ DExceptions[FirstApplying].size.none => decision = NoAction
        /\ ~DExceptions[FirstApplying].size.none
              => decision = SetSize(DExceptions[FirstApplying].size.v)
  /\ (dpc = "decided" /\ DExceptions = HolidayOnly /\ dT = Dec20_1200)
        => decision = SetSize(0)

\* an exception of size 0 has decided for a target that a rule places under
\* the night schedule, at noon, when that schedule's window is not active
C12_Witness ==
  /\ dpc = "decided"
  /\ dT = Dec20_1200
  /\ Applying # {}
  /\ decision = SetSize(0)
  /\ Len(dsnap.rules.entries) = 1
  /\ FilterMatches(dsnap.rules.entries[1], dtarget)
  /\ ~dconsulted

Jan01_0600 == Instant(2025, 1, 1, 6, 0)

\* C13: the scan ends active exactly when the minute it stopped at matches
\* start (end matching too or not); it ends inactive at a minute before T
\* that matches end and not start, or when the horizon of 366*24*60 minutes
\* held no boundary.  For start "0 20 5 * *" and end "0 6 1 * *" the scans
\* from 2025-01-06 02:00 and 2025-02-01 05:00 stop at 2025-01-05 20:00,
\* active; the scan from 2025-01-05 19:00 stops at 2025-01-01 06:00 and the
\* scan from 2025-02-01 07:00 at 2025-02-01 06:00, both inactive.
C13_WindowActivity ==
  wpc = "done" =>
    /\ wactive = matches(wentry.start, wM)
    /\ ~wactive => (wleft = 0 \/ (matches(wentry.end, wM) /\ wM # wT))
    /\ wleft = 0 => (~wactive /\ wentry = NeverEntry)
    /\ (wentry = FriMonEntry /\ wT \in {Jan06_0200, Feb01_0500})
          => (wactive /\ wM = Jan05_2000)
    /\ (wentry = FriMonEntry /\ wT = Jan05_1900) => (~wactive /\ wM = Jan01_0600)
    /\ (wentry = FriMonEntry /\ wT = Feb01_0700) => (~wactive /\ wM = Feb01_0600)
    /\ (wentry = FriMonEntry /\ wT = Feb01_0600) => (wactive /\ wM = Jan05_2000)
    /\ (wentry = TieEntry /\ wT = Jan06_0200) => (wactive /\ wM = Jan05_2000)

\* the scan from 2025-02-01 05:00 has gone back over the month to the start
\* of 2025-01-05 20:00
C13_Witness ==
  /\ wpc = "done"
  /\ wentry = FriMonEntry
  /\ wT = Feb01_0500
  /\ wM = Jan05_2000
  /\ wactive

(***************************************************************************)
(* The handler.                                                            *)
(***************************************************************************)
Updates == {i \in 1..Len(calls) : calls[i].op = "update"}
Compared == hpc \in {"respond", "returned"} \/ (hpc = "raised" /\ current # Unbound)

\* C14: an update of the node pool is issued only after its size was read,
\* only with the requested size, only when that size differs from the size
\* read, and at most once; once the comparison has been made, an update
\* has been issued exactly when the two sizes differ.
C14_ResizeOnlyOnMismatch ==
  /\ Cardinality(Updates) <= 1
  /\ \A i \in Updates :
        /\ i = 2
        /\ calls[1] = GetCall
        /\ current # Unbound
        /\ calls[i].size = hsize.n
        /\ current.n # hsize.n
  /\ Compared => ((Updates # {}) <=> (current.n # hsize.n))

\* a pool read at size 0 has been updated to the requested size 2
C14_Witness ==
  /\ hpc = "returned"
  /\ current = YInt(0)
  /\ hsize = YInt(2)
  /\ calls = <<GetCall, UpdateCall(2), GetCall>>
  /\ live = 2

\* the request read off the body: a JSON object whose nodepool_id is there
\* and neither null nor "", and whose size is a number or an integer literal
SizeConverts(v) == v.t \in {"int", "bool", "float"} \/ (v.t = "str" /\ PyInt(v.s).ok)
ValidRequest ==
  /\ body.t = "object"
  /\ body.nodepool_id.t \notin {"absent", "null"}
  /\ body.nodepool_id # YStr(<<>>)
  /\ SizeConverts(body.size)

\* C15: a cloud API call has been made only for a body that is a JSON
\* object with a nodepool_id (not missing, not null, not "") and a size that
\* int() converts; for any other body the handler never gets past line 39,
\* where it ends with an exception and no call made.
C15_NoCallWithoutValidRequest ==
  /\ calls # <<>> => ValidRequest
  /\ ~ValidRequest => hpc \in {"parse", "nodepool_id", "size", "int", "format", "raised"}
  /\ (~ValidRequest /\ hpc = "raised")
        => (calls = <<>> /\ hexc \in {"UnboundLocalError", "TypeError", "ValueError"})

\* a request whose size is "abc" has ended at line 39 with no call made
C15_Witness ==
  /\ hpc = "raised"
  /\ body = JsonObject(YStr(OcidText), YStr(<<"a", "b", "c">>))
  /\ hexc = "TypeError"
  /\ calls = <<>>

=============================================================================
